---- MODULE Spec2Model ----
(***************************************************************************)
(* Model of KurtBruns/dependency-graph (src/src/index.ts).                 *)
(*                                                                         *)
(* A DependencyGraph<string> is a Map<string, Set<string>> plus a node     *)
(* counter.  JavaScript's Map and Set iterate in insertion order, so the   *)
(* Map is modelled as a sequence of entries [key, deps] and each Set as a  *)
(* duplicate-free sequence.  Strings are sequences of one-character        *)
(* strings, so that toString and Generate are modelled by what they do.    *)
(***************************************************************************)
EXTENDS Integers, Sequences, FiniteSets, TLC

\* ------------------------------------------------------------------ inputs
\* The items handed to the calls: the node names 'a', 'b', 'c' of the tests.
Items == { <<"a">>, <<"b">>, <<"c">> }

\* ------------------------------------------------------------------ bounds
\* addDependency is not called once the graph would store more edges.
MaxEdges == 3

\* ------------------------------------------------------- generic helpers
Range(s) == { s[i] : i \in 1..Len(s) }

\* ------------------------------------------------ Set<T> (insertion order)
SetHas(s, x) == x \in Range(s)
SetAdd(s, x) == IF SetHas(s, x) THEN s ELSE Append(s, x)

\* ---------------------------------------------- Map<T, Set<T>> (ordered)
MapKeys(m) == [ i \in 1..Len(m) |-> m[i].key ]
MapHas(m, k) == \E i \in 1..Len(m) : m[i].key = k
MapIndex(m, k) == CHOOSE i \in 1..Len(m) : m[i].key = k
MapGet(m, k) == m[MapIndex(m, k)].deps
MapSet(m, k, v) ==
    IF MapHas(m, k)
    THEN [ i \in 1..Len(m) |-> IF m[i].key = k THEN [key |-> k, deps |-> v] ELSE m[i] ]
    ELSE Append(m, [key |-> k, deps |-> v])
MapDelete(m, k) == SelectSeq(m, LAMBDA e : e.key # k)

\* ------------------------------------------------------------ LinkedList
\* The list is the sequence of its items from head to tail.
LinkedListNew == <<>>
\* faulty variant: insert at the tail instead of the head
LinkedListInsertAtTail(list, element) == Append(list, element)

LinkedListInsert(list, element) == <<element>> \o list
LinkedListRemove(list) == IF list # <<>> THEN Tail(list) ELSE list

\* The class itself: a head pointer to a chain of nodes [data, next] and a
\* count.  Null is the null pointer (and what first() returns when empty).
Null == <<>>

LinkedList == [head |-> Null, count |-> 0]

\* faulty variant: the new node is not linked to the old head
insertDropsTail(list, element) ==
    [head |-> [data |-> element, next |-> Null], count |-> list.count + 1]

insert(list, element) ==
    IF list.head = Null
    THEN [head |-> [data |-> element, next |-> Null], count |-> list.count + 1]
    ELSE LET temp == list.head IN
         [head |-> [data |-> element, next |-> temp], count |-> list.count + 1]

first(list) == IF list.head # Null THEN list.head.data ELSE Null

\* remove(): the list after the call and the boolean it returns
removeHead(list) ==
    IF list.head # Null
    THEN [list |-> [head |-> list.head.next, count |-> list.count - 1], returned |-> TRUE]
    ELSE [list |-> list, returned |-> FALSE]

\* [Symbol.iterator]: the items the iterator yields, in order
RECURSIVE iterator(_)
iterator(current) ==
    IF current = Null THEN <<>> ELSE <<current.data>> \o iterator(current.next)

\* ------------------------------------------------------- DependencyGraph
\* A graph object is a record [relationships, size].
DependencyGraphNew == [relationships |-> <<>>, size |-> 0]

contains(g, node) == MapHas(g.relationships, node)

\* faulty variant: an existing node gets a fresh, empty dependent set
addResetsExisting(g, node) ==
    IF ~contains(g, node)
    THEN [relationships |-> MapSet(g.relationships, node, <<>>), size |-> g.size + 1]
    ELSE [g EXCEPT !.relationships = MapSet(@, node, <<>>)]

add(g, node) ==
    IF ~contains(g, node)
    THEN [relationships |-> MapSet(g.relationships, node, <<>>), size |-> g.size + 1]
    ELSE g

\* faulty variant: the counter is decremented whether or not the key existed
removeAlwaysDecrement(g, node) ==
    [relationships |-> MapDelete(g.relationships, node), size |-> g.size - 1]

\* faulty variant: the removed node is also scrubbed from every other dependent set
removeAndScrub(g, node) ==
    IF MapHas(g.relationships, node)
    THEN [relationships |->
             [ i \in 1..Len(MapDelete(g.relationships, node)) |->
                 [key |-> MapDelete(g.relationships, node)[i].key,
                  deps |-> SelectSeq(MapDelete(g.relationships, node)[i].deps,
                                     LAMBDA d : d # node)] ],
          size |-> g.size - 1]
    ELSE g

\* faulty variant: the counter is decremented but the entry is not deleted
removeKeepsEntry(g, node) ==
    IF MapHas(g.relationships, node)
    THEN [relationships |-> g.relationships, size |-> g.size - 1]
    ELSE g

remove(g, node) ==
    IF MapHas(g.relationships, node)
    THEN [relationships |-> MapDelete(g.relationships, node), size |-> g.size - 1]
    ELSE g

\* getDependents(node, true): the direct dependents, [] for an absent node
getDependentsShallow(g, node) ==
    IF ~MapHas(g.relationships, node) THEN <<>> ELSE MapGet(g.relationships, node)

RECURSIVE traverse(_, _, _, _)
RECURSIVE traverseLoop(_, _, _, _, _)

\* faulty variant: only the direct dependents are compared, nothing is explored
RECURSIVE traverseLoopNoRecursion(_, _, _, _, _)
traverseLoopNoRecursion(g, dependents, i, node, visited) ==
    IF i > Len(dependents)
    THEN [raised |-> FALSE, visited |-> visited, expanded |-> <<>>]
    ELSE IF dependents[i] = node
         THEN [raised |-> TRUE, visited |-> visited, expanded |-> <<>>]
         ELSE traverseLoopNoRecursion(g, dependents, i + 1, node, visited)

\* faulty variant: any revisited node counts as a circular dependency
RECURSIVE traverseLoopAnyRevisit(_, _, _, _, _)
traverseLoopAnyRevisit(g, dependents, i, node, visited) ==
    IF i > Len(dependents)
    THEN [raised |-> FALSE, visited |-> visited, expanded |-> <<>>]
    ELSE LET d == dependents[i] IN
         IF d = node \/ d \in visited
         THEN [raised |-> TRUE, visited |-> visited, expanded |-> <<>>]
         ELSE LET r == traverse(g, d, node, visited) IN
              IF r.raised THEN r
              ELSE LET rest == traverseLoopAnyRevisit(g, dependents, i + 1, node, r.visited)
                   IN [rest EXCEPT !.expanded = r.expanded \o @]

\* faulty variant: the visited test comes before the comparison with node
RECURSIVE traverseLoopVisitedFirst(_, _, _, _, _)
traverseLoopVisitedFirst(g, dependents, i, node, visited) ==
    IF i > Len(dependents)
    THEN [raised |-> FALSE, visited |-> visited, expanded |-> <<>>]
    ELSE LET d == dependents[i] IN
         IF d \in visited
         THEN traverseLoopVisitedFirst(g, dependents, i + 1, node, visited)
         ELSE IF d = node
              THEN [raised |-> TRUE, visited |-> visited, expanded |-> <<>>]
              ELSE LET r == traverse(g, d, node, visited) IN
                   IF r.raised THEN r
                   ELSE LET rest == traverseLoopVisitedFirst(g, dependents, i + 1, node, r.visited)
                        IN [rest EXCEPT !.expanded = r.expanded \o @]

\* faulty variant: what a recursive call visited is forgotten on its return
RECURSIVE traverseLoopForgetsVisited(_, _, _, _, _)
traverseLoopForgetsVisited(g, dependents, i, node, visited) ==
    IF i > Len(dependents)
    THEN [raised |-> FALSE, visited |-> visited, expanded |-> <<>>]
    ELSE LET d == dependents[i] IN
         IF d = node
         THEN [raised |-> TRUE, visited |-> visited, expanded |-> <<>>]
         ELSE IF d \notin visited
              THEN LET r == traverse(g, d, node, visited) IN
                   IF r.raised THEN r
                   ELSE LET rest == traverseLoopForgetsVisited(g, dependents, i + 1, node, visited)
                        IN [rest EXCEPT !.expanded = r.expanded \o @]
              ELSE traverseLoopForgetsVisited(g, dependents, i + 1, node, visited)

\* The for-loop of traverse over dependents[i..]; returns whether the error
\* was thrown and the visited set as it stands.  expanded is bookkeeping of
\* the model: the nodes traverse was invoked on, in order of invocation.
traverseLoop(g, dependents, i, node, visited) ==
    IF i > Len(dependents)
    THEN [raised |-> FALSE, visited |-> visited, expanded |-> <<>>]
    ELSE LET d == dependents[i] IN
         IF d = node
         THEN [raised |-> TRUE, visited |-> visited, expanded |-> <<>>]
         ELSE IF d \notin visited
              THEN LET r == traverse(g, d, node, visited) IN
                   IF r.raised THEN r
                   ELSE LET rest == traverseLoop(g, dependents, i + 1, node, r.visited)
                        IN [rest EXCEPT !.expanded = r.expanded \o @]
              ELSE traverseLoop(g, dependents, i + 1, node, visited)

traverse(g, current, node, visited) ==
    LET r == traverseLoop(g, getDependentsShallow(g, current), 1, node, visited \cup {current})
    IN [r EXCEPT !.expanded = <<current>> \o @]

\* faulty variant: the edge and the auto-added endpoints are rolled back on a throw
addDependencyRollback(g, from, to) ==
    LET g2 == add(add(g, from), to)
        g3 == [g2 EXCEPT !.relationships =
                  MapSet(@, from, SetAdd(MapGet(@, from), to))]
        raised == traverse(g3, from, from, {}).raised
    IN [graph |-> IF raised THEN g ELSE g3, raised |-> raised]

\* faulty variant: an edge that is already stored is refused as well
addDependencyRejectsDuplicate(g, from, to) ==
    LET g2 == add(add(g, from), to)
        g3 == [g2 EXCEPT !.relationships =
                  MapSet(@, from, SetAdd(MapGet(@, from), to))]
    IN [graph |-> g3,
        raised |-> \/ SetHas(MapGet(g2.relationships, from), to)
                   \/ traverse(g3, from, from, {}).raised]

\* addDependency: returns the graph after the call and whether it threw.
addDependency(g, from, to) ==
    LET g2 == add(add(g, from), to)
        g3 == [g2 EXCEPT !.relationships =
                  MapSet(@, from, SetAdd(MapGet(@, from), to))]
    IN [graph |-> g3, raised |-> traverse(g3, from, from, {}).raised]

\* What Map.get returns for a key that is not in the map.
Undefined == <<"undefined">>

getAdjacentNodes(g, node) ==
    IF MapHas(g.relationships, node) THEN MapGet(g.relationships, node) ELSE Undefined

\* getTopologicalDependents: returns the visited set and the list, both of
\* which the code mutates in place.
RECURSIVE getTopologicalDependents(_, _, _, _)
RECURSIVE getTopologicalDependentsLoop(_, _, _, _, _)

getTopologicalDependentsLoop(g, dependents, i, visited, list) ==
    IF i > Len(dependents)
    THEN [visited |-> visited, list |-> list]
    ELSE LET d == dependents[i] IN
         IF d \notin visited
         THEN LET r == getTopologicalDependents(g, d, visited, list) IN
              getTopologicalDependentsLoop(g, dependents, i + 1, r.visited, r.list)
         ELSE getTopologicalDependentsLoop(g, dependents, i + 1, visited, list)

\* faulty variant: the node is inserted before its dependents are explored
getTopologicalDependentsPreorder(g, node, visited, list) ==
    getTopologicalDependentsLoop(g, getDependentsShallow(g, node), 1,
                                 visited \cup {node}, LinkedListInsert(list, node))

getTopologicalDependents(g, node, visited, list) ==
    LET r == getTopologicalDependentsLoop(g, getDependentsShallow(g, node), 1,
                                          visited \cup {node}, list)
    IN [visited |-> r.visited, list |-> LinkedListInsert(r.list, node)]

getNodes(g) == MapKeys(g.relationships)

RECURSIVE getTopologicalSortLoop(_, _, _, _, _)
getTopologicalSortLoop(g, nodes, i, visited, list) ==
    IF i > Len(nodes)
    THEN list
    ELSE IF nodes[i] \notin visited
         THEN LET r == getTopologicalDependents(g, nodes[i], visited, list) IN
              getTopologicalSortLoop(g, nodes, i + 1, r.visited, r.list)
         ELSE getTopologicalSortLoop(g, nodes, i + 1, visited, list)

getTopologicalSort(g) == getTopologicalSortLoop(g, getNodes(g), 1, {}, LinkedListNew)

\* faulty variant: the starting node is left at the head of the deep result
getDependentsKeepHead(g, node, shallow) ==
    IF ~MapHas(g.relationships, node) THEN <<>>
    ELSE IF shallow THEN MapGet(g.relationships, node)
    ELSE getTopologicalDependents(g, node, {}, LinkedListNew).list

getDependents(g, node, shallow) ==
    IF ~MapHas(g.relationships, node) THEN <<>>
    ELSE IF shallow THEN MapGet(g.relationships, node)
    ELSE LinkedListRemove(getTopologicalDependents(g, node, {}, LinkedListNew).list)

\* --------------------------------------------------- toString / Generate
Arrow == <<"-", ">">>
Newline == <<"\n">>

RECURSIVE toStringInner(_, _, _, _)
toStringInner(from, dependents, j, result) ==
    IF j > Len(dependents) THEN result
    ELSE toStringInner(from, dependents, j + 1,
                       result \o from \o Arrow \o dependents[j] \o Newline)

RECURSIVE toStringOuter(_, _, _, _)
toStringOuter(g, nodes, i, result) ==
    IF i > Len(nodes) THEN result
    ELSE toStringOuter(g, nodes, i + 1,
                       toStringInner(nodes[i], getDependents(g, nodes[i], TRUE), 1, result))

toString(g) == toStringOuter(g, getNodes(g), 1, <<>>)

\* String.prototype.indexOf(pat, position) with 0-based indices, -1 if absent
indexOf(str, pat, position) ==
    LET p == IF position < 0 THEN 0 ELSE IF position > Len(str) THEN Len(str) ELSE position
        hits == { k \in p..(Len(str) - Len(pat)) :
                    \A j \in 1..Len(pat) : str[k + j] = pat[j] }
    IN IF hits = {} THEN -1 ELSE CHOOSE k \in hits : \A h \in hits : k <= h

\* String.prototype.substring(start, end) with 0-based indices
substring(str, start, end) ==
    LET Clamp(x) == IF x < 0 THEN 0 ELSE IF x > Len(str) THEN Len(str) ELSE x
        s == Clamp(start)
        e == Clamp(end)
        lo == IF s <= e THEN s ELSE e
        hi == IF s <= e THEN e ELSE s
    IN [ k \in 1..(hi - lo) |-> str[lo + k] ]

\* The while-loop of Generate; a throwing addDependency ends the call.
RECURSIVE GenerateLoop(_, _, _, _)
GenerateLoop(str, start, index, graph) ==
    IF ~(index > 0)
    THEN [raised |-> FALSE, graph |-> graph]
    ELSE LET from == substring(str, start, index)
             start2 == index + 1
             index2 == indexOf(str, Newline, index)
             to == substring(str, start2 + 1, index2)
             r == addDependency(graph, from, to)
             start3 == index2 + 1
         IN IF r.raised
            THEN [raised |-> TRUE, graph |-> r.graph]
            ELSE GenerateLoop(str, start3, indexOf(str, Arrow, start3), r.graph)

Generate(str) == GenerateLoop(str, 0, indexOf(str, Arrow, 0), DependencyGraphNew)

\* ----------------------------------------------------------------- state
\* relationships, size: the fields of the graph under test.
\* call:   the last call made on it (operation, arguments, whether it threw).
\* result: what that call returned (<<>> for the void mutators).
\* list:   a LinkedList under test.
\* stack:  the items inserted into list and not yet removed, latest first.
\* everRaised: whether some addDependency call on the graph has thrown so far.
\* beforeRemove: the mapping as it was before remove(n), kept while the last
\*         call is that remove(n) or the add(n) that directly follows it;
\*         <<>> otherwise.
VARIABLES relationships, size, call, result, list, stack, everRaised, beforeRemove

vars == <<relationships, size, call, result, list, stack, everRaised, beforeRemove>>

This == [relationships |-> relationships, size |-> size]

NumEdges(g) ==
    LET RECURSIVE Sum(_)
        Sum(i) == IF i = 0 THEN 0 ELSE Len(g.relationships[i].deps) + Sum(i - 1)
    IN Sum(Len(g.relationships))

Call(op, args, shallow, raised) ==
    [op |-> op, args |-> args, shallow |-> shallow, raised |-> raised]

Init ==
    /\ relationships = DependencyGraphNew.relationships
    /\ size = DependencyGraphNew.size
    /\ call = Call("new", <<>>, FALSE, FALSE)
    /\ result = <<>>
    /\ list = LinkedList
    /\ stack = <<>>
    /\ everRaised = FALSE
    /\ beforeRemove = <<>>

Add(node) ==
    LET g == add(This, node) IN
    /\ relationships' = g.relationships
    /\ size' = g.size
    /\ call' = Call("add", <<node>>, FALSE, FALSE)
    /\ beforeRemove' = IF call.op = "remove" /\ call.args = <<node>>
                       THEN beforeRemove ELSE <<>>
    /\ result' = <<>>
    /\ UNCHANGED <<list, stack, everRaised>>

Remove(node) ==
    LET g == remove(This, node) IN
    /\ relationships' = g.relationships
    /\ size' = g.size
    /\ call' = Call("remove", <<node>>, FALSE, FALSE)
    /\ beforeRemove' = relationships
    /\ result' = <<>>
    /\ UNCHANGED <<list, stack, everRaised>>

AddDependency(from, to) ==
    LET r == addDependency(This, from, to) IN
    /\ NumEdges(r.graph) <= MaxEdges
    /\ relationships' = r.graph.relationships
    /\ size' = r.graph.size
    /\ call' = Call("addDependency", <<from, to>>, FALSE, r.raised)
    /\ beforeRemove' = <<>>
    /\ result' = <<>>
    /\ everRaised' = (everRaised \/ r.raised)
    /\ UNCHANGED <<list, stack>>

GetDependents(node, shallow) ==
    /\ call' = Call("getDependents", <<node>>, shallow, FALSE)
    /\ beforeRemove' = <<>>
    /\ result' = getDependents(This, node, shallow)
    /\ UNCHANGED <<relationships, size, list, stack, everRaised>>

GetAdjacentNodes(node) ==
    /\ call' = Call("getAdjacentNodes", <<node>>, FALSE, FALSE)
    /\ beforeRemove' = <<>>
    /\ result' = getAdjacentNodes(This, node)
    /\ UNCHANGED <<relationships, size, list, stack, everRaised>>

GetTopologicalSort ==
    /\ call' = Call("getTopologicalSort", <<>>, FALSE, FALSE)
    /\ beforeRemove' = <<>>
    /\ result' = getTopologicalSort(This)
    /\ UNCHANGED <<relationships, size, list, stack, everRaised>>

ToStringCall ==
    /\ call' = Call("toString", <<>>, FALSE, FALSE)
    /\ beforeRemove' = <<>>
    /\ result' = toString(This)
    /\ UNCHANGED <<relationships, size, list, stack, everRaised>>

\* Generate(dg.toString()): the static factory applied to the string that
\* toString has just returned; result is the new graph, or the throw.
GenerateCall ==
    /\ call.op = "toString"
    /\ LET r == Generate(result) IN
       /\ call' = Call("Generate", <<>>, FALSE, r.raised)
       /\ beforeRemove' = <<>>
       /\ result' = r.graph
    /\ UNCHANGED <<relationships, size, list, stack, everRaised>>

Next ==
    \/ \E node \in Items : Add(node)
    \/ \E node \in Items : Remove(node)
    \/ \E from \in Items, to \in Items : AddDependency(from, to)
    \/ \E node \in Items, shallow \in BOOLEAN : GetDependents(node, shallow)
    \/ \E node \in Items : GetAdjacentNodes(node)
    \/ GetTopologicalSort
    \/ ToStringCall
    \/ GenerateCall

Spec == Init /\ [][Next]_vars

\* ------------------------------------------- graphs of four nodes (ordering)
\* The ordering tests build graphs over 'a', 'b', 'c', 'd' with addDependency
\* alone and then query them; this specification does the same.  As in those
\* tests every edge joins two different nodes (an edge from a node to itself
\* is exercised by the three-node specification above).
OrderItems == { <<"a">>, <<"b">>, <<"c">>, <<"d">> }

\* addDependency is not called once the graph would store more edges.
MaxOrderEdges == 4

OrderAddDependency(from, to) ==
    LET r == addDependency(This, from, to) IN
    /\ NumEdges(r.graph) <= MaxOrderEdges
    /\ relationships' = r.graph.relationships
    /\ size' = r.graph.size
    /\ call' = Call("addDependency", <<from, to>>, FALSE, r.raised)
    /\ beforeRemove' = <<>>
    /\ result' = <<>>
    /\ everRaised' = (everRaised \/ r.raised)
    /\ UNCHANGED <<list, stack>>

NextOrder ==
    \/ \E from \in OrderItems : \E to \in OrderItems \ {from} :
          OrderAddDependency(from, to)
    \/ \E node \in OrderItems : GetDependents(node, FALSE)
    \/ GetTopologicalSort

SpecOrder == Init /\ [][NextOrder]_vars

\* ------------------------------------------------- a LinkedList on its own
\* insert is not called once the list holds this many items.
MaxListLen == 3

ListInsert(element) ==
    /\ list.count < MaxListLen
    /\ list' = insert(list, element)
    /\ stack' = <<element>> \o stack
    /\ call' = Call("insert", <<element>>, FALSE, FALSE)
    /\ beforeRemove' = <<>>
    /\ result' = <<>>
    /\ UNCHANGED <<relationships, size, everRaised>>

ListRemove ==
    /\ list' = removeHead(list).list
    /\ stack' = IF stack = <<>> THEN stack ELSE Tail(stack)
    /\ call' = Call("remove", <<>>, FALSE, FALSE)
    /\ beforeRemove' = <<>>
    /\ result' = removeHead(list).returned
    /\ UNCHANGED <<relationships, size, everRaised>>

ListFirst ==
    /\ call' = Call("first", <<>>, FALSE, FALSE)
    /\ beforeRemove' = <<>>
    /\ result' = first(list)
    /\ UNCHANGED <<relationships, size, list, stack, everRaised>>

ListSize ==
    /\ call' = Call("size", <<>>, FALSE, FALSE)
    /\ beforeRemove' = <<>>
    /\ result' = list.count
    /\ UNCHANGED <<relationships, size, list, stack, everRaised>>

ListIterate ==
    /\ call' = Call("iterator", <<>>, FALSE, FALSE)
    /\ beforeRemove' = <<>>
    /\ result' = iterator(list.head)
    /\ UNCHANGED <<relationships, size, list, stack, everRaised>>

NextList ==
    \/ \E element \in Items : ListInsert(element)
    \/ ListRemove
    \/ ListFirst
    \/ ListSize
    \/ ListIterate

SpecList == Init /\ [][NextList]_vars

\* ------------------------------------------------- vocabulary of the claims
\* The stored edge relation, read off the mapping without any traversal.
KeySet(g) == { g.relationships[i].key : i \in 1..Len(g.relationships) }

Edges(g) ==
    UNION { { <<g.relationships[i].key, d>> : d \in Range(g.relationships[i].deps) } :
            i \in 1..Len(g.relationships) }

DirectDeps(g, n) == { e[2] : e \in { e \in Edges(g) : e[1] = n } }

Successors(g, S) == { e[2] : e \in { e \in Edges(g) : e[1] \in S } }

RECURSIVE Closure(_, _, _)
Closure(g, S, k) == IF k = 0 THEN S ELSE Closure(g, S \cup Successors(g, S), k - 1)

\* nodes reachable from x along one or more stored edges
ReachPlus(g, x) == Closure(g, Successors(g, {x}), Cardinality(Items))

OnCycle(g, x) == x \in ReachPlus(g, x)

Acyclic(g) == \A x \in Items : ~OnCycle(g, x)

NoDups(seq) == \A i, j \in 1..Len(seq) : seq[i] = seq[j] => i = j

\* u and v both occur in seq and every u comes before every v
Before(seq, u, v) ==
    /\ \E i \in 1..Len(seq) : seq[i] = u
    /\ \E j \in 1..Len(seq) : seq[j] = v
    /\ \A i, j \in 1..Len(seq) : (seq[i] = u /\ seq[j] = v) => i < j

IsAddDependency == call.op = "addDependency"
From == call.args[1]
To == call.args[2]

\* C1: whenever an addDependency call returns without raising, the stored
\* edge relation contains no cycle (self-loops included).
C1_AcyclicAfterSuccess ==
    (IsAddDependency /\ ~call.raised) => Acyclic(This)

\* C2: addDependency(from, to) raises whenever from = to or from is reachable
\* from to along the edges stored at the time of the call.
C2_ClosingEdgeRaises ==
    [][ \A from, to \in Items :
          ( /\ call'.op = "addDependency"
            /\ call'.args = <<from, to>>
            /\ (from = to \/ from \in ReachPlus(This, to)) )
          => call'.raised ]_vars

\* the closing edge of a 3-cycle has just been refused
C2_Witness ==
    /\ IsAddDependency /\ call.raised
    /\ \E a, b \in Items :
          /\ Cardinality({a, b, From}) = 3
          /\ To = a
          /\ Edges(This) = { <<a, b>>, <<b, From>>, <<From, a>> }

C4_SortRespectsEdges ==
    (call.op = "getTopologicalSort" /\ Acyclic(This)) =>
        \A e \in Edges(This) : Before(result, e[1], e[2])

\* an acyclic graph with an isolated node and an edge whose target was
\* inserted into the mapping before its source
C4_Witness ==
    /\ call.op = "getTopologicalSort" /\ Acyclic(This)
    /\ \E n \in KeySet(This) : DirectDeps(This, n) = {} /\ \A e \in Edges(This) : e[2] # n
    /\ \E i, j \in 1..Len(relationships) :
          /\ i < j
          /\ <<relationships[j].key, relationships[i].key>> \in Edges(This)

\* C5: getTopologicalSort() contains every contained node exactly once and
\* nothing else, so its length equals size().
C5_SortIsExactlyTheNodes ==
    call.op = "getTopologicalSort" =>
        /\ Range(result) = KeySet(This)
        /\ NoDups(result)
        /\ Len(result) = size

\* C6: for a contained node x, getDependents(x) (deep) returns exactly the
\* nodes reachable from x by one or more stored edges, each once and never x
\* itself; when the relation is acyclic, u comes before v for every stored
\* edge u -> v between two returned nodes.
C6_DeepDependents ==
    (call.op = "getDependents" /\ ~call.shallow /\ call.args[1] \in KeySet(This)) =>
        LET x == call.args[1] IN
        /\ Range(result) = ReachPlus(This, x) \ {x}
        /\ NoDups(result)
        /\ Acyclic(This) =>
             \A e \in Edges(This) :
                (e[1] \in Range(result) /\ e[2] \in Range(result)) => Before(result, e[1], e[2])

\* deep dependents of the top of a transitive triangle x -> u -> v, x -> v
C6_Witness ==
    /\ call.op = "getDependents" /\ ~call.shallow /\ Acyclic(This)
    /\ Len(result) = 2
    /\ <<result[1], result[2]>> \in Edges(This)
    /\ DirectDeps(This, call.args[1]) = {result[1], result[2]}

\* C7: size() equals the number of distinct keys of the mapping; never negative.
C7_SizeIsKeyCount ==
    /\ size = Cardinality(KeySet(This))
    /\ size = Len(relationships)
    /\ size >= 0
    /\ call.op = "new" => size = 0

\* a remove call on a graph of two nodes that still stores a refused cycle
C7_Witness ==
    /\ call.op = "remove"
    /\ size = 2
    /\ ~Acyclic(This)

\* C8: remove(node) on a contained node deletes only that node's entry and
\* decrements size by one, every other dependent set staying as it was,
\* dangling references included; on an absent node it changes nothing.
C8_RemoveFrame ==
    [][ call'.op = "remove" =>
          LET node == call'.args[1] IN
          IF node \in KeySet(This)
          THEN /\ KeySet(This') = KeySet(This) \ {node}
               /\ size' = size - 1
               /\ \A n \in KeySet(This') :
                    MapGet(relationships', n) = MapGet(relationships, n)
          ELSE relationships' = relationships /\ size' = size
      ]_vars

\* the removed node is still listed as a dependent of a contained node
C8_Witness ==
    /\ call.op = "remove"
    /\ call.args[1] \notin KeySet(This)
    /\ \E n \in KeySet(This) : call.args[1] \in DirectDeps(This, n)

\* C9: Generate(G.toString()) completes without raising and has the direct
\* dependent relation of G and the nodes of G except G's isolated nodes.
Isolated(g) ==
    { n \in KeySet(g) : \A e \in Edges(g) : e[1] # n /\ e[2] # n }

C9_RoundTrip ==
    call.op = "Generate" =>
        /\ ~call.raised
        /\ Edges(result) = Edges(This)
        /\ KeySet(result) = KeySet(This) \ Isolated(This)

C11_AddIdempotent ==
    [][ call'.op = "add" =>
          LET node == call'.args[1] IN
          /\ ~call'.raised
          /\ IF node \in KeySet(This)
             THEN /\ size' = size
                  /\ KeySet(This') = KeySet(This)
                  /\ \A n \in KeySet(This) :
                       MapGet(relationships', n) = MapGet(relationships, n)
             ELSE /\ size' = size + 1
                  /\ KeySet(This') = KeySet(This) \cup {node}
                  /\ MapGet(relationships', node) = <<>>
                  /\ \A n \in KeySet(This) :
                       MapGet(relationships', n) = MapGet(relationships, n)
      ]_vars

\* add has just been called on a node that has dependents of its own
C11_Witness ==
    /\ call.op = "add"
    /\ DirectDeps(This, call.args[1]) # {}

\* C12: for a node that is not contained, getDependents (shallow and deep)
\* and getAdjacentNodes each return an empty result, not a no-value result,
\* and never raise.
C12_AbsentLookupsEmpty ==
    ( /\ call.op \in {"getDependents", "getAdjacentNodes"}
      /\ call.args[1] \notin KeySet(This) )
    => (~call.raised /\ result # Undefined /\ Len(result) = 0)

\* The depth-first postorder of the claim: roots in node insertion order,
\* successors in edge insertion order, a node listed after its successors.
SuccSeq(g, n) ==
    IF \E i \in 1..Len(g.relationships) : g.relationships[i].key = n
    THEN g.relationships[CHOOSE i \in 1..Len(g.relationships) : g.relationships[i].key = n].deps
    ELSE <<>>

RECURSIVE DfsPost(_, _, _)
RECURSIVE DfsPostEach(_, _, _, _)
DfsPostEach(g, succ, i, st) ==
    IF i > Len(succ) THEN st
    ELSE DfsPostEach(g, succ, i + 1,
                     IF succ[i] \in st.seen THEN st ELSE DfsPost(g, succ[i], st))

DfsPost(g, n, st) ==
    LET st1 == DfsPostEach(g, SuccSeq(g, n), 1, [seen |-> st.seen \cup {n}, post |-> st.post])
    IN [seen |-> st1.seen, post |-> Append(st1.post, n)]

DfsPostAll(g) ==
    DfsPostEach(g, [ i \in 1..Len(g.relationships) |-> g.relationships[i].key ], 1,
                [seen |-> {}, post |-> <<>>]).post

Reverse(seq) == [ i \in 1..Len(seq) |-> seq[Len(seq) + 1 - i] ]

\* the graph built by addDependency(a,b), (a,c), (c,d), (d,b)
GraphACDB ==
    << [key |-> <<"a">>, deps |-> << <<"b">>, <<"c">> >>],
       [key |-> <<"b">>, deps |-> <<>>],
       [key |-> <<"c">>, deps |-> << <<"d">> >>],
       [key |-> <<"d">>, deps |-> << <<"b">> >>] >>

\* the graph built by addDependency(a,b), (a,c), (b,d), (c,d)
GraphDiamond ==
    << [key |-> <<"a">>, deps |-> << <<"b">>, <<"c">> >>],
       [key |-> <<"b">>, deps |-> << <<"d">> >>],
       [key |-> <<"c">>, deps |-> << <<"d">> >>],
       [key |-> <<"d">>, deps |-> <<>>] >>

\* C13: getTopologicalSort() and the deep getDependents equal the reverse of
\* the depth-first postorder (roots in node insertion order, successors in
\* edge insertion order); the graph built by (a,b), (a,c), (c,d), (d,b) sorts
\* to [a, c, d, b] and the one built by (a,b), (a,c), (b,d), (c,d) has a first
\* and d last.
C13_InsertionOrderFixesResult ==
    /\ call.op = "getTopologicalSort" =>
         /\ result = Reverse(DfsPostAll(This))
         /\ relationships = GraphACDB => result = << <<"a">>, <<"c">>, <<"d">>, <<"b">> >>
         /\ relationships = GraphDiamond =>
              (Len(result) = 4 /\ result[1] = <<"a">> /\ result[4] = <<"d">>)
    /\ (call.op = "getDependents" /\ ~call.shallow /\ call.args[1] \in KeySet(This)) =>
         result = Tail(Reverse(DfsPost(This, call.args[1], [seen |-> {}, post |-> <<>>]).post))

\* the graph of the [a, c, d, b] example has just been sorted
C13_Witness ==
    /\ call.op = "getTopologicalSort"
    /\ relationships = GraphACDB

\* C14: LinkedList is a last-in-first-out stack: iteration yields the items
\* inserted and not yet removed, latest first; first() is the first of them
\* (null when empty); size() is their number; remove() returns true exactly
\* when the list was non-empty, and on an empty list leaves size() at 0.
C14_LinkedListIsStack ==
    /\ [] ( /\ iterator(list.head) = stack
            /\ list.count = Len(stack)
            /\ call.op = "iterator" => result = stack
            /\ call.op = "first" =>
                 IF stack = <<>> THEN result = Null ELSE result = Head(stack)
            /\ call.op = "size" => result = Len(stack) )
    /\ [][ call'.op = "remove" =>
             /\ result' = (stack # <<>>)
             /\ stack = <<>> => list'.count = 0 ]_vars

\* a list of two different items has just been iterated
C14_Witness ==
    /\ call.op = "iterator"
    /\ Len(result) = 2
    /\ result[1] # result[2]

\* every node that occurs in the graph, as a key or as a dependent
Nodes(g) == KeySet(g) \cup { e[2] : e \in Edges(g) }

\* C15: addDependency, getDependents and getTopologicalSort terminate in every
\* reachable state, cycles left by a refused call and dangling references
\* included: within one call no node is expanded twice, so a call expands at
\* most as many nodes as the graph has.
C15_EachNodeExpandedOnce ==
    /\ IsAddDependency =>
         LET r == traverse(This, From, From, {}) IN
         /\ NoDups(r.expanded)
         /\ Len(r.expanded) <= Cardinality(Nodes(This))
    /\ call.op = "getTopologicalSort" =>
         (NoDups(result) /\ Len(result) <= Cardinality(Nodes(This)))
    /\ (call.op = "getDependents" /\ ~call.shallow) =>
         (NoDups(result) /\ Len(result) <= Cardinality(Nodes(This)))

\* an accepted addDependency whose walk ran into a cycle left by a refused
\* call, in a graph that also holds a dangling reference
C15_Witness ==
    /\ IsAddDependency /\ ~call.raised
    /\ OnCycle(This, To)
    /\ \E e \in Edges(This) : e[2] \notin KeySet(This)

\* C16: as long as no addDependency call has raised, the stored edge relation
\* is acyclic, whatever the interleaving of add, remove and addDependency;
\* removing a node and adding it again cannot bring in an undetected cycle.
C16_AcyclicUntilFirstRaise ==
    ~everRaised => Acyclic(This)

\* no call has raised, and add has just been called on a node that has no
\* dependents of its own, sits last in the mapping and is listed by a node
\* that itself has a predecessor, as after remove(n); add(n) in x -> m -> n
C16_Witness ==
    /\ ~everRaised
    /\ call.op = "add"
    /\ Len(relationships) = 3
    /\ relationships[3].key = call.args[1]
    /\ relationships[3].deps = <<>>
    /\ \E m \in KeySet(This) :
         /\ call.args[1] \in DirectDeps(This, m)
         /\ \E x \in KeySet(This) : m \in DirectDeps(This, x)

C18_ReAddKeepsIncomingEdges ==
    (call.op = "add" /\ call.args[1] \in KeySet([relationships |-> beforeRemove])) =>
        LET n == call.args[1]
            before == [relationships |-> beforeRemove]
        IN /\ n \in KeySet(This)
           /\ DirectDeps(This, n) = {}
           /\ DirectDeps(before, n) # {} => relationships # beforeRemove
           /\ \A m \in KeySet(before) \ {n} :
                n \in DirectDeps(before, m) =>
                  /\ n \in DirectDeps(This, m)
                  /\ n \in Range(getDependents(This, m, FALSE))
                  /\ Before(getTopologicalSort(This), m, n)

\* n had a dependent and a predecessor when it was removed and added again
C18_Witness ==
    /\ call.op = "add"
    /\ call.args[1] \in KeySet([relationships |-> beforeRemove])
    /\ DirectDeps([relationships |-> beforeRemove], call.args[1]) # {}
    /\ \E m \in KeySet(This) \ {call.args[1]} : call.args[1] \in DirectDeps(This, m)
====
